---- MODULE Spec2Model ----
(***************************************************************************)
(* Model of the blackbeard-extension signature gate.                       *)
(*                                                                         *)
(*   SpecCodec  the pure codec functions (padStart, parseASN1Signature in  *)
(*              its three variants) applied to bounded byte sequences.     *)
(*   Spec       one POST / request at a time through one of the handler    *)
(*              variants: the verifySignature middleware followed by       *)
(*              handlePost (app.ts), and the single handlers of part_000   *)
(*              and part_001 built on the boolean verifySignature.         *)
(*   FairSpec   Spec with weak fairness on the program's own steps; the    *)
(*              key endpoint's answer is an environment step and is not    *)
(*              fair.                                                      *)
(*   SpecConc   several calls of the verifySignature middleware in flight   *)
(*              at once, interleaved at their awaits.                      *)
(*   SpecStream the start function of streamCompletion's ReadableStream    *)
(*              over an upstream chunk sequence.                           *)
(*   SpecPost   handlePost after the token test: confirmations, tool       *)
(*              calls, tool selection and the streamed completion.         *)
(*                                                                         *)
(* Bytes are naturals 0..255, byte arrays are sequences.  JavaScript       *)
(* offsets are 0-based; sequences are 1-based.                             *)
(***************************************************************************)
EXTENDS Integers, Sequences, FiniteSets, TLC

VARIABLES
    \* ---- codec (SpecCodec) ----
    cstep,      \* which codec operation produced the outputs below
    data,       \* the byte sequence handed to padStart
    padOut,     \* what padStart did with it
    sigBuf,     \* the byte sequence handed to parseASN1Signature
    decOut,     \* what parseASN1Signature did with it
    \* ---- request handling (Spec) ----
    pc,         \* position of the handler in its code
    variant,    \* which handler serves the request
    req,        \* the request: headers and body
    fetches,    \* requests issued to the key endpoint for this request
    keyResp,    \* what the awaited fetch settled with
    loc,        \* locals of the verification: cryptoKey, rawSignature
    verifyLog,  \* the calls of crypto.subtle.verify with their results
    nextCalls,  \* times the request was passed on to downstream handling
    boolRet,    \* how the boolean verifySignature ended
    cred,       \* credential-dependent effects for this request
    resp,       \* the HTTP response sent
    \* ---- concurrent verifications (SpecConc) ----
    calls,      \* the locals of each middleware call in flight
    \* ---- streamCompletion (SpecStream) ----
    strm,       \* the upstream chunks, the controller and the position of start
    \* ---- handlePost (SpecPost) ----
    hp          \* the request's messages, the locals and effects of handlePost

codecVars == <<cstep, data, padOut, sigBuf, decOut>>
reqVars == <<pc, variant, req, fetches, keyResp, loc, verifyLog, nextCalls,
             boolRet, cred, resp>>
vars == <<cstep, data, padOut, sigBuf, decOut, pc, variant, req, fetches,
          keyResp, loc, verifyLog, nextCalls, boolRet, cred, resp, calls, strm, hp>>

(***************************************************************************)
(* Byte-array helpers with JavaScript semantics.                           *)
(***************************************************************************)
Min(a, b) == IF a < b THEN a ELSE b
Max(a, b) == IF a > b THEN a ELSE b

\* new Uint8Array(n).fill(b)
Fill(n, b) == [i \in 1..n |-> b]

\* arr.slice(from, to), 0-based, end exclusive, clamped to the array
Slice(s, from, to) == SubSeq(s, Max(from, 0) + 1, Min(to, Len(s)))

\* The value of an out-of-range read arr[i] (undefined)
Undefined == -1

\* arr[i], 0-based
At(s, i) == IF i >= 0 /\ i < Len(s) THEN s[i + 1] ELSE Undefined

\* A returned value, and a thrown error
Ok(v) == [ok |-> TRUE, val |-> v]
Throw == [ok |-> FALSE, val |-> <<>>]

\* The coordinate width every caller passes to padStart
totalLength == 32

(***************************************************************************)
(* padStart, the component normalisation, in its three copies.             *)
(***************************************************************************)
\* A padStart that cuts an over-long component down to its last bytes
padStartTruncating(d, width) ==
    IF Len(d) = width THEN Ok(d)
    ELSE IF Len(d) > width THEN Ok(SubSeq(d, Len(d) - width + 1, Len(d)))
    ELSE Ok(Fill(width - Len(d), 0) \o d)

\* A padStart that places a short component at the start of the result
padStartRightPad(d, width) ==
    IF Len(d) = width THEN Ok(d)
    ELSE IF Len(d) > width
         THEN IF Len(d) = width + 1 /\ d[1] = 0
              THEN Ok(Slice(d, 1, Len(d)))
              ELSE Throw
    ELSE Ok(d \o Fill(width - Len(d), 0))

\* middlewares/verifySignature.ts
padStart(d, width) ==
    IF Len(d) = width THEN Ok(d)
    ELSE IF Len(d) > width
         THEN IF Len(d) = width + 1 /\ d[1] = 0
              THEN Ok(Slice(d, 1, Len(d)))
              ELSE Throw
    ELSE Ok(Fill(width - Len(d), 0) \o d)

\* part_000
padStart_p0(d, width) ==
    IF Len(d) = width THEN Ok(d)
    ELSE IF Len(d) > width
         THEN IF Len(d) = width + 1
              THEN IF d[1] # 0 THEN Throw ELSE Ok(Slice(d, 1, Len(d)))
              ELSE Throw
    ELSE Ok(Fill(width - Len(d), 0) \o d)

\* part_001, second half
padStart_p1(d, width) ==
    IF Len(d) = width THEN Ok(d)
    ELSE IF Len(d) > width
         THEN IF Len(d) = width + 1 /\ d[1] = 0
              THEN Ok(Slice(d, 1, Len(d)))
              ELSE Throw
    ELSE Ok(Fill(width - Len(d), 0) \o d)

(***************************************************************************)
(* fromBER of asn1js, as far as the decoders use it: one element is read   *)
(* from the start of the buffer; bytes after it are left alone.            *)
(*   offset   -1 on a decoding error, else the offset after the element    *)
(*   tag      the identifier byte                                          *)
(*   cons     the element is constructed: valueBlock.value is its children *)
(*   hasHex   valueBlock.valueHexView exists (primitive elements)          *)
(*   hex      valueBlock.valueHexView                                      *)
(*   value    valueBlock.value                                             *)
(* Lengths are read in the short form and in the long form; the indefinite *)
(* form and multi-byte tag numbers do not occur in the inputs and decode   *)
(* as an error here.  Where a decoded value is used more than once it is   *)
(* bound as the element of a singleton set, which evaluates it once.       *)
(***************************************************************************)
BerError == [offset |-> -1, tag |-> 0, cons |-> FALSE, hasHex |-> FALSE,
             hex |-> <<>>, value |-> <<>>]

IsConstructed(tag) == (tag \div 32) % 2 = 1
TagNumber(tag) == tag % 32
TagClass(tag) == tag \div 64

\* The length block at 0-based offset off, reading no further than lim:
\* [ok, len, size] with size the bytes of the length block itself.
LenBlock(buf, off, lim) ==
    IF off >= lim THEN [ok |-> FALSE, len |-> 0, size |-> 0]
    ELSE LET b == buf[off + 1]
             k == b - 128
         IN IF b < 128 THEN [ok |-> TRUE, len |-> b, size |-> 1]
            ELSE IF b = 255 \/ k = 0 \/ k > 8 \/ off + 1 + k > lim
                 THEN [ok |-> FALSE, len |-> 0, size |-> 0]
            ELSE IF \E i \in 1..(k - 2) : buf[off + 1 + i] # 0
                 THEN [ok |-> FALSE, len |-> 0, size |-> 0]  \* longer than any buffer
            ELSE [ok |-> TRUE,
                  len |-> (IF k >= 2 THEN 256 * buf[off + k] ELSE 0) + buf[off + 1 + k],
                  size |-> 1 + k]

RECURSIVE localFromBER(_, _, _)
RECURSIVE berChildren(_, _, _)

\* The children of a constructed element: elements are read while content
\* remains; one failing child fails the parent.  (Each child is bound by a
\* singleton set so that it is decoded once.)
berChildren(buf, cur, remaining) ==
    IF remaining <= 0 THEN [ok |-> TRUE, kids |-> <<>>]
    ELSE CHOOSE out \in
           {IF child.offset = -1 THEN [ok |-> FALSE, kids |-> <<>>]
            ELSE CHOOSE res \in
                   {IF rest.ok THEN [ok |-> TRUE, kids |-> <<child>> \o rest.kids]
                    ELSE rest :
                      rest \in {berChildren(buf, child.offset,
                                            remaining - (child.offset - cur))}} : TRUE :
              child \in {localFromBER(buf, cur, remaining)}} : TRUE

localFromBER(buf, off, inputLength) ==
    IF Len(buf) = 0 \/ inputLength <= 0 \/ off + inputLength > Len(buf)
    THEN BerError
    ELSE LET tag == buf[off + 1]
             lb == LenBlock(buf, off + 1, off + inputLength)
             start == off + 1 + lb.size
         IN IF TagNumber(tag) = 31 \/ ~lb.ok THEN BerError
            ELSE IF start + lb.len > Len(buf) THEN BerError
            ELSE IF IsConstructed(tag)
                 THEN LET ch == berChildren(buf, start, lb.len)
                      IN IF ~ch.ok THEN BerError
                         ELSE [offset |-> start + lb.len, tag |-> tag, cons |-> TRUE,
                               hasHex |-> FALSE, hex |-> <<>>, value |-> ch.kids]
            ELSE IF TagClass(tag) = 0 /\ TagNumber(tag) = 3 /\ lb.len > 0
                 THEN \* BIT STRING: the first content byte counts the unused bits
                      IF buf[start + 1] > 7 THEN BerError
                      ELSE [offset |-> start + lb.len, tag |-> tag, cons |-> FALSE,
                            hasHex |-> TRUE,
                            hex |-> Slice(buf, start + 1, start + lb.len),
                            value |-> <<>>]
            ELSE [offset |-> start + lb.len, tag |-> tag, cons |-> FALSE,
                  hasHex |-> TRUE, hex |-> Slice(buf, start, start + lb.len),
                  value |-> <<>>]

fromBER(buf) == localFromBER(buf, 0, Len(buf))

\* new Uint8Array(x.valueBlock.valueHexView): the bytes, or an empty array
\* when the element has no valueHexView
HexView(el) == IF el.hasHex THEN el.hex ELSE <<>>

(***************************************************************************)
(* parseASN1Signature in its three variants.                               *)
(***************************************************************************)
\* middlewares/verifySignature.ts and part_001's second half: only the
\* decoding error is tested; [r, s] takes the first two children.
parseASN1Signature(sig) ==
    CHOOSE out \in
      {IF asn1.offset = -1 THEN Throw
       ELSE IF ~asn1.cons THEN Throw         \* valueBlock.value is not iterable
       ELSE IF Len(asn1.value) < 2 THEN Throw  \* r or s is undefined
       ELSE LET pr == padStart(HexView(asn1.value[1]), totalLength)
                ps == padStart(HexView(asn1.value[2]), totalLength)
            IN IF pr.ok /\ ps.ok THEN Ok(pr.val \o ps.val) ELSE Throw :
         asn1 \in {fromBER(sig)}} : TRUE

\* part_000: the element count is tested as well
parseASN1Signature_p0(sig) ==
    CHOOSE out \in
      {IF asn1.offset = -1 THEN Throw
       ELSE IF ~asn1.cons THEN Throw         \* valueBlock.value.length of undefined
       ELSE IF Len(asn1.value) # 2 THEN Throw
       ELSE LET paddedR == padStart_p0(HexView(asn1.value[1]), totalLength)
                paddedS == padStart_p0(HexView(asn1.value[2]), totalLength)
            IN IF paddedR.ok /\ paddedS.ok
               THEN Ok(paddedR.val \o paddedS.val) ELSE Throw :
         asn1 \in {fromBER(sig)}} : TRUE

\* result.set(src, offset) on the 64-byte result: a RangeError unless the
\* source fits at the offset
SetAt(result, src, offset) ==
    IF offset < 0 \/ offset + Len(src) > Len(result) THEN Throw
    ELSE Ok([i \in 1..Len(result) |->
               IF i > offset /\ i <= offset + Len(src) THEN src[i - offset]
               ELSE result[i]])

\* part_001, first half: the hand-rolled byte-offset decoder
parseASN1Signature_p1(signature) ==
    IF At(signature, 0) # 48 THEN Throw
    ELSE LET total == At(signature, 1)
         IN IF total = Undefined \/ total + 2 # Len(signature) THEN Throw
            ELSE IF At(signature, 2) # 2 THEN Throw
            ELSE LET rLength == At(signature, 3)
                     rStart == 4
                 IN IF rLength = Undefined THEN Throw  \* signature[NaN] is no tag
                    ELSE IF At(signature, rStart + rLength) # 2 THEN Throw
                    ELSE LET r0 == Slice(signature, rStart, rStart + rLength)
                             sLength == At(signature, rStart + rLength + 1)
                             sStart == rStart + rLength + 2
                             \* slice(sStart, NaN) is empty
                             s0 == IF sLength = Undefined THEN <<>>
                                   ELSE Slice(signature, sStart, sStart + sLength)
                             r == IF Len(r0) > 32 /\ r0[1] = 0 THEN Tail(r0) ELSE r0
                             s == IF Len(s0) > 32 /\ s0[1] = 0 THEN Tail(s0) ELSE s0
                             withR == SetAt(Fill(64, 0), r, 32 - Len(r))
                         IN IF ~withR.ok THEN Throw
                            ELSE SetAt(withR.val, s, 64 - Len(s))

(***************************************************************************)
(* The codec's inputs.                                                     *)
(***************************************************************************)
\* Longest run of fill bytes in a padStart input
MaxFill == 33
\* Most elements put into one signature structure
MaxElems == 3

Leads == {<<>>, <<0>>, <<1>>, <<128>>, <<0, 0>>, <<0, 128>>}
FillBytes == {0, 1, 255}

PadInputs == {l \o Fill(n, b) : l \in Leads, n \in 0..MaxFill, b \in FillBytes}

\* Integer contents of the signature structures: short, exact, with a sign
\* guard, and over-long
SigComps == {<<5>>, Fill(totalLength - 1, 255), Fill(totalLength, 255),
             <<0>> \o Fill(totalLength, 255), <<1>> \o Fill(totalLength, 255),
             <<0, 0>> \o Fill(totalLength, 255)}

\* tag, length, content (contents here are shorter than 128 bytes)
EncodeTLV(tag, content) == <<tag, Len(content)>> \o content

RECURSIVE Concat(_)
Concat(ss) == IF ss = <<>> THEN <<>> ELSE Head(ss) \o Concat(Tail(ss))

\* n elements, the first two holding r and s, the element at index bad (if
\* any) tagged BIT STRING instead of INTEGER; then a lone tag byte if dangling
SigContent(n, bad, r, s, dangling) ==
    Concat([i \in 1..n |->
              EncodeTLV(IF i = bad THEN 3 ELSE 2,
                        IF i = 1 THEN r ELSE IF i = 2 THEN s ELSE <<1>>)])
    \o (IF dangling THEN <<2>> ELSE <<>>)

SigInputs ==
    {LET whole == EncodeTLV(outer, SigContent(n, bad, r, s, dangling)) \o trailing
     IN IF cut THEN SubSeq(whole, 1, 1) ELSE whole :
        outer \in {48, 49, 2}, n \in 0..MaxElems, bad \in 0..MaxElems,
        r \in SigComps, s \in SigComps, dangling \in BOOLEAN,
        trailing \in {<<>>, <<0>>}, cut \in BOOLEAN}

\* Exactly one DER SEQUENCE of exactly two INTEGER elements, nothing after it
IsDerSig(b) ==
    /\ Len(b) >= 6
    /\ b[1] = 48
    /\ b[2] < 128 /\ b[2] = Len(b) - 2
    /\ b[3] = 2
    /\ b[4] < 128 /\ 4 + b[4] + 2 <= Len(b)
    /\ b[4 + b[4] + 1] = 2
    /\ b[4 + b[4] + 2] < 128
    /\ 4 + b[4] + 2 + b[4 + b[4] + 2] = Len(b)

(***************************************************************************)
(* SpecCodec: the codec functions applied to the inputs.                   *)
(***************************************************************************)
NoResponse == [status |-> 0, text |-> ""]
NoKeyResp == [kind |-> "none", keys |-> <<>>]
NoLocals == [cryptoKey |-> "none", rawSignature |-> <<>>]

ReqIdle ==
    /\ pc = "off" /\ variant = "none"
    /\ req = [sig |-> [kind |-> "absent", bytes |-> <<>>], keyId |-> "<absent>",
              token |-> "<absent>", body |-> ""]
    /\ fetches = 0 /\ keyResp = NoKeyResp /\ loc = NoLocals /\ verifyLog = <<>>
    /\ nextCalls = 0 /\ boolRet = "none" /\ cred = {} /\ resp = NoResponse

InitCodec ==
    /\ \/ cstep = "padInput" /\ data \in PadInputs /\ sigBuf = <<>>
       \/ cstep = "sigInput" /\ sigBuf \in SigInputs /\ data = <<>>
    /\ padOut = Throw
    /\ decOut = Throw
    /\ ReqIdle
    /\ calls = <<>> /\ strm = <<>> /\ hp = <<>>

CallPadStart ==
    /\ cstep = "padInput"
    /\ cstep' = "padStart"
    /\ padOut' = padStart(data, totalLength)
    /\ UNCHANGED <<data, sigBuf, decOut>> /\ UNCHANGED <<reqVars, calls, strm, hp>>

CallPadStart_p0 ==
    /\ cstep = "padInput"
    /\ cstep' = "padStart_p0"
    /\ padOut' = padStart_p0(data, totalLength)
    /\ UNCHANGED <<data, sigBuf, decOut>> /\ UNCHANGED <<reqVars, calls, strm, hp>>

CallPadStart_p1 ==
    /\ cstep = "padInput"
    /\ cstep' = "padStart_p1"
    /\ padOut' = padStart_p1(data, totalLength)
    /\ UNCHANGED <<data, sigBuf, decOut>> /\ UNCHANGED <<reqVars, calls, strm, hp>>

CallParse ==
    /\ cstep = "sigInput"
    /\ cstep' = "parse"
    /\ decOut' = parseASN1Signature(sigBuf)
    /\ UNCHANGED <<data, sigBuf, padOut>> /\ UNCHANGED <<reqVars, calls, strm, hp>>

CallParse_p0 ==
    /\ cstep = "sigInput"
    /\ cstep' = "parse_p0"
    /\ decOut' = parseASN1Signature_p0(sigBuf)
    /\ UNCHANGED <<data, sigBuf, padOut>> /\ UNCHANGED <<reqVars, calls, strm, hp>>

CallParse_p1 ==
    /\ cstep = "sigInput"
    /\ cstep' = "parse_p1"
    /\ decOut' = parseASN1Signature_p1(sigBuf)
    /\ UNCHANGED <<data, sigBuf, padOut>> /\ UNCHANGED <<reqVars, calls, strm, hp>>

NextCodec ==
    \/ CallPadStart \/ CallPadStart_p0 \/ CallPadStart_p1
    \/ CallParse \/ CallParse_p0 \/ CallParse_p1

SpecCodec == InitCodec /\ [][NextCodec]_vars

(***************************************************************************)
(* Properties of the codec (checked under SpecCodec).                      *)
(***************************************************************************)
PadSteps == {"padStart", "padStart_p0", "padStart_p1"}
ParseSteps == {"parse", "parse_p0", "parse_p1"}

\* The byte sequence without its leading zero bytes: two sequences denote the
\* same unsigned big-endian number exactly when these agree
RECURSIVE Canon(_)
Canon(b) == IF b = <<>> THEN <<>> ELSE IF b[1] = 0 THEN Canon(Tail(b)) ELSE b

\* C5: padStart(data, 32), in every copy, throws for each sequence of length
\* 33 whose first byte is non-zero and for each sequence longer than 33
\* bytes, leading zero bytes or not; nothing over-long is cut to 32 bytes.
C5_OverLengthRejected ==
    (/\ cstep \in PadSteps
     /\ \/ Len(data) = totalLength + 1 /\ data[1] # 0
        \/ Len(data) > totalLength + 1)
    => ~padOut.ok

\* C5 witness: a 34-byte component starting with zero bytes was rejected by
\* the middleware's padStart
C5_Witness ==
    /\ cstep = "padStart"
    /\ Len(data) = totalLength + 2 /\ data[1] = 0 /\ data[2] = 0
    /\ ~padOut.ok

\* C6 (as claimed): every input that is not exactly one DER SEQUENCE of
\* exactly two INTEGER elements with nothing after it makes
\* parseASN1Signature throw, in each of the three decoders.
C6_MalformedRejected ==
    (cstep \in ParseSteps /\ ~IsDerSig(sigBuf)) => ~decOut.ok

\* C7: whatever padStart(b, 32) accepts, it returns b itself for 32 bytes,
\* b[1:] for 33 bytes starting with zero, and b behind zero bytes for fewer
\* than 32 bytes; the result has 32 bytes and denotes the same number as b.
C7_NormalizedValue ==
    (cstep \in PadSteps /\ padOut.ok) =>
        /\ Len(data) = totalLength => padOut.val = data
        /\ (Len(data) = totalLength + 1 /\ data[1] = 0) => padOut.val = Tail(data)
        /\ Len(data) < totalLength =>
              /\ SubSeq(padOut.val, totalLength - Len(data) + 1, totalLength) = data
              /\ \A i \in 1..(totalLength - Len(data)) : padOut.val[i] = 0
        /\ Len(padOut.val) = totalLength
        /\ Canon(padOut.val) = Canon(data)

\* C7 witness: a short component with a non-zero first byte was padded by the
\* middleware's padStart
C7_Witness ==
    /\ cstep = "padStart"
    /\ Len(data) > 0 /\ Len(data) < totalLength /\ data[1] # 0
    /\ padOut.ok

(***************************************************************************)
(* The collaborators of a verification: base64, the key endpoint, Web      *)
(* Crypto.                                                                 *)
(***************************************************************************)
Absent == "<absent>"

\* !x of a header value or a body: undefined and the empty string are falsy
Falsy(x) == x = Absent \/ x = ""
FalsyHeader(h) == h.kind \in {"absent", "empty"}

\* atob of the signature header: a DOMException unless the text is base64
atob(h) == IF h.kind = "b64" THEN Ok(h.bytes)
           ELSE IF h.kind = "empty" THEN Ok(<<>>)
           ELSE Throw

\* Key material as the endpoint lists it: b64ok says whether the text between
\* the PEM frames is base64, spki names the bytes it decodes to
PemA == [b64ok |-> TRUE, spki |-> "A"]
PemB == [b64ok |-> TRUE, spki |-> "B"]
PemNotSpki == [b64ok |-> TRUE, spki |-> "garbage"]
PemNotB64 == [b64ok |-> FALSE, spki |-> "garbage"]

\* pemToArrayBuffer: frames and white space stripped, then atob
pemToArrayBuffer(pem) == IF pem.b64ok THEN Ok(pem.spki) ELSE Throw

\* crypto.subtle.importKey('spki', ...): rejects what is no P-256 key
importKey(spki) == IF spki \in {"A", "B"} THEN Ok(spki) ELSE Throw

\* The key sets the endpoint may list; identifiers need not be unique
KeySets ==
    { <<[key_identifier |-> "k1", key |-> PemA], [key_identifier |-> "k2", key |-> PemB]>>,
      <<[key_identifier |-> "k1", key |-> PemB], [key_identifier |-> "k1", key |-> PemA]>>,
      <<[key_identifier |-> "k1", key |-> PemNotB64],
        [key_identifier |-> "k2", key |-> PemNotSpki]>>,
      <<>> }

\* How the awaited fetch (and the reading of the response) can settle
KeyResponses ==
    {[kind |-> k, keys |-> <<>>] : k \in {"reject", "notok", "badjson"}}
    \cup {[kind |-> "keys", keys |-> ks] : ks \in KeySets}

\* keys.public_keys.find(key => key.key_identifier === keyId): the index of
\* the first match, 0 for undefined
FindKey(keys, keyId) ==
    IF \E i \in 1..Len(keys) : keys[i].key_identifier = keyId
    THEN CHOOSE i \in 1..Len(keys) :
            /\ keys[i].key_identifier = keyId
            /\ \A j \in 1..(i - 1) : keys[j].key_identifier # keyId
    ELSE 0

\* Request bodies; JSON.parse and c.req.json() throw on the others
Bodies == {"", "hello", "{m1}"}
IsJson(b) == b = "{m1}"

\* The raw signature the holder of a key produces for a message
KeyByte(k) == IF k = "A" THEN 200 ELSE 3
MsgByte(m) == IF m = "" THEN 9 ELSE IF m = "hello" THEN 34 ELSE 17
GenuineRaw(k, m) ==
    Fill(totalLength, KeyByte(k)) \o <<0>> \o Fill(totalLength - 1, MsgByte(m))

\* crypto.subtle.verify(ECDSA/SHA-256, key, rawSignature, payload)
CryptoVerify(key, raw, payload) == raw = GenuineRaw(key, payload)

\* The DER INTEGER content of an unsigned component: no leading zero bytes,
\* one zero byte in front when the top bit is set
DerInt(c) ==
    LET m == Canon(c)
    IN IF m = <<>> THEN <<0>> ELSE IF m[1] >= 128 THEN <<0>> \o m ELSE m

\* The DER ECDSA-Sig-Value of a raw signature, with extra INTEGER elements
DerSig(raw, extra) ==
    EncodeTLV(48, EncodeTLV(2, DerInt(SubSeq(raw, 1, totalLength)))
                  \o EncodeTLV(2, DerInt(SubSeq(raw, totalLength + 1, 2 * totalLength)))
                  \o Concat([i \in 1..extra |-> EncodeTLV(2, <<1>>)]))

\* Signature headers: missing, empty, not base64, and the base64 of bytes
SigHeaders ==
    {[kind |-> k, bytes |-> <<>>] : k \in {"absent", "empty", "junk"}}
    \cup {[kind |-> "b64", bytes |-> b] :
            b \in {DerSig(GenuineRaw("A", "{m1}"), 0),
                   DerSig(GenuineRaw("A", ""), 0),
                   DerSig(GenuineRaw("B", "{m1}"), 0),
                   DerSig(GenuineRaw("A", "{m1}"), 1),
                   EncodeTLV(48, EncodeTLV(2, Fill(totalLength + 2, 1))
                                 \o EncodeTLV(2, <<5>>))}}

KeyIds == {Absent, "", "k1", "k2", "k9"}
Tokens == {Absent, "", "tok"}

Requests == [sig : SigHeaders, keyId : KeyIds, token : Tokens, body : Bodies]

\* The handlers: app.ts (middleware, then handlePost), part_000 and the first
\* half of part_001 (one handler around the boolean verifySignature)
Variants == {"mw", "p0", "p1"}

Respond(status, text) == [status |-> status, text |-> text]

\* The framework's answer to an error no handler catches
UncaughtError == Respond(500, "Internal Server Error")

\* parseASN1Signature as the handler variant has it
Decode(v, bytes) ==
    IF v = "p0" THEN parseASN1Signature_p0(bytes)
    ELSE IF v = "p1" THEN parseASN1Signature_p1(bytes)
    ELSE parseASN1Signature(bytes)

CodecIdle ==
    /\ cstep = "off" /\ data = <<>> /\ padOut = Throw /\ sigBuf = <<>> /\ decOut = Throw

Init ==
    /\ CodecIdle
    /\ pc = "start"
    /\ variant \in Variants
    /\ req \in Requests
    /\ fetches = 0 /\ keyResp = NoKeyResp /\ loc = NoLocals /\ verifyLog = <<>>
    /\ nextCalls = 0 /\ boolRet = "none" /\ cred = {} /\ resp = NoResponse
    /\ calls = <<>> /\ strm = <<>> /\ hp = <<>>

(***************************************************************************)
(* The key endpoint: the awaited fetch settles.  Nothing bounds the wait.   *)
(***************************************************************************)
KeyEndpointAnswers ==
    /\ pc = "awaitFetch"
    /\ \E r \in KeyResponses : keyResp' = r
    /\ pc' = "gotResp"
    /\ UNCHANGED <<variant, req, fetches, loc, verifyLog, nextCalls, boolRet, cred, resp>>
    /\ UNCHANGED <<codecVars, calls, strm, hp>>

\* The verify call both kinds of handler make once the signature is decoded
VerifyCall(key, raw, payload) ==
    [key |-> key, raw |-> raw, payload |-> payload,
     result |-> CryptoVerify(key, raw, payload)]

(***************************************************************************)
(* app.ts: the verifySignature middleware, then handlePost.                *)
(***************************************************************************)
\* Headers are read and tested, the body is read, the key set is requested
MwStart ==
    /\ variant = "mw" /\ pc = "start"
    /\ IF FalsyHeader(req.sig) \/ Falsy(req.keyId)
       THEN /\ resp' = Respond(400, "Missing signature headers")
            /\ pc' = "done"
            /\ UNCHANGED fetches
       ELSE /\ fetches' = fetches + 1
            /\ pc' = "awaitFetch"
            /\ UNCHANGED resp
    /\ UNCHANGED <<variant, req, keyResp, loc, verifyLog, nextCalls, boolRet, cred>>
    /\ UNCHANGED <<codecVars, calls, strm, hp>>

\* A middleware that requests the key set again after a non-ok response
MwOnResponseRetrying ==
    /\ variant = "mw" /\ pc = "gotResp"
    /\ LET idx == FindKey(keyResp.keys, req.keyId)
           buf == pemToArrayBuffer(keyResp.keys[idx].key)
           key == importKey(buf.val)
       IN IF keyResp.kind = "reject"
          THEN /\ resp' = Respond(500, "Signature verification failed")
               /\ pc' = "done" /\ UNCHANGED <<loc, fetches>>
          ELSE IF keyResp.kind = "notok"
          THEN IF fetches < 2
               THEN /\ fetches' = fetches + 1
                    /\ pc' = "awaitFetch" /\ UNCHANGED <<loc, resp>>
               ELSE /\ resp' = Respond(500, "Failed to fetch public keys")
                    /\ pc' = "done" /\ UNCHANGED <<loc, fetches>>
          ELSE IF keyResp.kind = "badjson"
          THEN /\ resp' = Respond(500, "Signature verification failed")
               /\ pc' = "done" /\ UNCHANGED <<loc, fetches>>
          ELSE IF idx = 0
          THEN /\ resp' = Respond(401, "No matching public key found")
               /\ pc' = "done" /\ UNCHANGED <<loc, fetches>>
          ELSE IF ~buf.ok \/ ~key.ok
          THEN /\ resp' = Respond(500, "Signature verification failed")
               /\ pc' = "done" /\ UNCHANGED <<loc, fetches>>
          ELSE /\ loc' = [loc EXCEPT !.cryptoKey = key.val]
               /\ pc' = "imported" /\ UNCHANGED <<resp, fetches>>
    /\ UNCHANGED <<variant, req, keyResp, verifyLog, nextCalls, boolRet, cred>>
    /\ UNCHANGED <<codecVars, calls, strm, hp>>

\* The response is tested and read, the key is looked up and imported
MwOnResponse ==
    /\ variant = "mw" /\ pc = "gotResp"
    /\ LET idx == FindKey(keyResp.keys, req.keyId)
           buf == pemToArrayBuffer(keyResp.keys[idx].key)
           key == importKey(buf.val)
       IN IF keyResp.kind = "reject"
          THEN /\ resp' = Respond(500, "Signature verification failed")
               /\ pc' = "done" /\ UNCHANGED loc
          ELSE IF keyResp.kind = "notok"
          THEN /\ resp' = Respond(500, "Failed to fetch public keys")
               /\ pc' = "done" /\ UNCHANGED loc
          ELSE IF keyResp.kind = "badjson"
          THEN /\ resp' = Respond(500, "Signature verification failed")
               /\ pc' = "done" /\ UNCHANGED loc
          ELSE IF idx = 0
          THEN /\ resp' = Respond(401, "No matching public key found")
               /\ pc' = "done" /\ UNCHANGED loc
          ELSE IF ~buf.ok \/ ~key.ok
          THEN /\ resp' = Respond(500, "Signature verification failed")
               /\ pc' = "done" /\ UNCHANGED loc
          ELSE /\ loc' = [loc EXCEPT !.cryptoKey = key.val]
               /\ pc' = "imported" /\ UNCHANGED resp
    /\ UNCHANGED <<variant, req, fetches, keyResp, verifyLog, nextCalls, boolRet, cred>>
    /\ UNCHANGED <<codecVars, calls, strm, hp>>

\* The signature is decoded and handed to crypto.subtle.verify with the body
MwOnImported ==
    /\ variant = "mw" /\ pc = "imported"
    /\ \E signatureBuffer \in {atob(req.sig)} :
       \E rawSignature \in {parseASN1Signature(signatureBuffer.val)} :
          IF ~signatureBuffer.ok \/ ~rawSignature.ok
          THEN /\ resp' = Respond(500, "Signature verification failed")
               /\ pc' = "done" /\ UNCHANGED <<loc, verifyLog>>
          ELSE /\ loc' = [loc EXCEPT !.rawSignature = rawSignature.val]
               /\ verifyLog' = Append(verifyLog,
                                      VerifyCall(loc.cryptoKey, rawSignature.val, req.body))
               /\ pc' = "verified" /\ UNCHANGED resp
    /\ UNCHANGED <<variant, req, fetches, keyResp, nextCalls, boolRet, cred>>
    /\ UNCHANGED <<codecVars, calls, strm, hp>>

\* A middleware that forwards whatever verify returned
MwOnVerifiedForwarding ==
    /\ variant = "mw" /\ pc = "verified"
    /\ nextCalls' = nextCalls + 1
    /\ pc' = "hp_start"
    /\ UNCHANGED <<variant, req, fetches, keyResp, loc, verifyLog, boolRet, cred, resp>>
    /\ UNCHANGED <<codecVars, calls, strm, hp>>

\* isValid is tested: 401, or next()
MwOnVerified ==
    /\ variant = "mw" /\ pc = "verified"
    /\ IF ~verifyLog[Len(verifyLog)].result
       THEN /\ resp' = Respond(401, "Invalid signature")
            /\ pc' = "done" /\ UNCHANGED nextCalls
       ELSE /\ nextCalls' = nextCalls + 1
            /\ pc' = "hp_start" /\ UNCHANGED resp
    /\ UNCHANGED <<variant, req, fetches, keyResp, loc, verifyLog, boolRet, cred>>
    /\ UNCHANGED <<codecVars, calls, strm, hp>>

\* handlePost: the token is required, then the body is read as JSON
HpStart ==
    /\ variant = "mw" /\ pc = "hp_start"
    /\ IF Falsy(req.token)
       THEN /\ resp' = Respond(400, "GitHub token is required")
            /\ cred' = cred \cup {"tokenRequired"}
            /\ pc' = "done"
       ELSE IF ~IsJson(req.body)
       THEN /\ resp' = UncaughtError
            /\ pc' = "done" /\ UNCHANGED cred
       ELSE /\ pc' = "hp_user" /\ UNCHANGED <<resp, cred>>
    /\ UNCHANGED <<variant, req, fetches, keyResp, loc, verifyLog, nextCalls, boolRet>>
    /\ UNCHANGED <<codecVars, calls, strm, hp>>

\* handlePost: GET /user with the token
HpUser ==
    /\ variant = "mw" /\ pc = "hp_user"
    /\ cred' = cred \cup {"userLookup"}
    /\ \E ok \in BOOLEAN :
          IF ok THEN pc' = "hp_completion" /\ UNCHANGED resp
          ELSE pc' = "done" /\ resp' = Respond(500, "Error")
    /\ UNCHANGED <<variant, req, fetches, keyResp, loc, verifyLog, nextCalls, boolRet>>
    /\ UNCHANGED <<codecVars, calls, strm, hp>>

\* handlePost: the chat completion is requested and answered as a stream
HpCompletion ==
    /\ variant = "mw" /\ pc = "hp_completion"
    /\ cred' = cred \cup {"completion"}
    /\ \E ok \in BOOLEAN :
          resp' = IF ok THEN Respond(200, "stream") ELSE Respond(500, "Error")
    /\ pc' = "done"
    /\ UNCHANGED <<variant, req, fetches, keyResp, loc, verifyLog, nextCalls, boolRet>>
    /\ UNCHANGED <<codecVars, calls, strm, hp>>

(***************************************************************************)
(* part_000 and part_001 (first half): the handler of POST / around the    *)
(* boolean verifySignature(payload, signature, keyId, tokenForUser).       *)
(***************************************************************************)
Single == {"p0", "p1"}

\* The handler reads and tests the headers, reads the body and calls
\* verifySignature
PostStart ==
    /\ variant \in Single /\ pc = "start"
    /\ IF FalsyHeader(req.sig) \/ Falsy(req.keyId)
       THEN /\ resp' = Respond(400, "Missing signature headers")
            /\ pc' = "done"
       ELSE /\ pc' = "vs_start" /\ UNCHANGED resp
    /\ UNCHANGED <<variant, req, fetches, keyResp, loc, verifyLog, nextCalls, boolRet, cred>>
    /\ UNCHANGED <<codecVars, calls, strm, hp>>

\* verifySignature: the parameters are tested, the key set is requested
VsStart ==
    /\ variant \in Single /\ pc = "vs_start"
    /\ IF Falsy(req.body) \/ FalsyHeader(req.sig) \/ Falsy(req.keyId)
       THEN /\ boolRet' = "false"
            /\ pc' = "vs_returned" /\ UNCHANGED fetches
       ELSE /\ fetches' = fetches + 1
            /\ pc' = "awaitFetch" /\ UNCHANGED boolRet
    /\ UNCHANGED <<variant, req, keyResp, loc, verifyLog, nextCalls, cred, resp>>
    /\ UNCHANGED <<codecVars, calls, strm, hp>>

\* A verifySignature whose try block starts after the fetch: a rejected
\* fetch leaves the function as an error
VsOnResponseFetchOutsideTry ==
    /\ variant \in Single /\ pc = "gotResp"
    /\ LET idx == FindKey(keyResp.keys, req.keyId)
           buf == pemToArrayBuffer(keyResp.keys[idx].key)
           key == importKey(buf.val)
       IN IF keyResp.kind = "reject"
          THEN /\ boolRet' = "threw"
               /\ pc' = "vs_returned" /\ UNCHANGED loc
          ELSE IF keyResp.kind \in {"notok", "badjson"} \/ idx = 0
          THEN /\ boolRet' = "false"
               /\ pc' = "vs_returned" /\ UNCHANGED loc
          ELSE IF ~buf.ok \/ ~key.ok
          THEN /\ boolRet' = "false"
               /\ pc' = "vs_returned" /\ UNCHANGED loc
          ELSE /\ loc' = [loc EXCEPT !.cryptoKey = key.val]
               /\ pc' = "imported" /\ UNCHANGED boolRet
    /\ UNCHANGED <<variant, req, fetches, keyResp, verifyLog, nextCalls, cred, resp>>
    /\ UNCHANGED <<codecVars, calls, strm, hp>>

\* verifySignature: the response is tested and read, the key is looked up
\* and imported; every error lands in the catch, which returns false
VsOnResponse ==
    /\ variant \in Single /\ pc = "gotResp"
    /\ LET idx == FindKey(keyResp.keys, req.keyId)
           buf == pemToArrayBuffer(keyResp.keys[idx].key)
           key == importKey(buf.val)
       IN IF keyResp.kind \in {"reject", "notok", "badjson"} \/ idx = 0
          THEN /\ boolRet' = "false"
               /\ pc' = "vs_returned" /\ UNCHANGED loc
          ELSE IF ~buf.ok \/ ~key.ok
          THEN /\ boolRet' = "false"
               /\ pc' = "vs_returned" /\ UNCHANGED loc
          ELSE /\ loc' = [loc EXCEPT !.cryptoKey = key.val]
               /\ pc' = "imported" /\ UNCHANGED boolRet
    /\ UNCHANGED <<variant, req, fetches, keyResp, verifyLog, nextCalls, cred, resp>>
    /\ UNCHANGED <<codecVars, calls, strm, hp>>

\* verifySignature: the signature is decoded and handed to
\* crypto.subtle.verify with the payload
VsOnImported ==
    /\ variant \in Single /\ pc = "imported"
    /\ \E signatureBuffer \in {atob(req.sig)} :
       \E rawSignature \in {Decode(variant, signatureBuffer.val)} :
          IF ~signatureBuffer.ok \/ ~rawSignature.ok
          THEN /\ boolRet' = "false"
               /\ pc' = "vs_returned" /\ UNCHANGED <<loc, verifyLog>>
          ELSE /\ loc' = [loc EXCEPT !.rawSignature = rawSignature.val]
               /\ verifyLog' = Append(verifyLog,
                                      VerifyCall(loc.cryptoKey, rawSignature.val, req.body))
               /\ pc' = "verified" /\ UNCHANGED boolRet
    /\ UNCHANGED <<variant, req, fetches, keyResp, nextCalls, cred, resp>>
    /\ UNCHANGED <<codecVars, calls, strm, hp>>

\* verifySignature: return isValid
VsOnVerified ==
    /\ variant \in Single /\ pc = "verified"
    /\ boolRet' = IF verifyLog[Len(verifyLog)].result THEN "true" ELSE "false"
    /\ pc' = "vs_returned"
    /\ UNCHANGED <<variant, req, fetches, keyResp, loc, verifyLog, nextCalls, cred, resp>>
    /\ UNCHANGED <<codecVars, calls, strm, hp>>

\* The handler after verifySignature: 401 unless valid, then the token is
\* required and the body parsed; what follows is the downstream handling
PostAfterVerify ==
    /\ variant \in Single /\ pc = "vs_returned"
    /\ IF boolRet = "threw"
       THEN /\ resp' = UncaughtError
            /\ pc' = "done" /\ UNCHANGED <<cred, nextCalls>>
       ELSE IF boolRet = "false"
       THEN /\ resp' = Respond(401, "Invalid signature")
            /\ pc' = "done" /\ UNCHANGED <<cred, nextCalls>>
       ELSE IF Falsy(req.token)
       THEN /\ resp' = Respond(400, "GitHub token is required")
            /\ cred' = cred \cup {"tokenRequired"}
            /\ nextCalls' = nextCalls + 1
            /\ pc' = "done"
       ELSE IF ~IsJson(req.body)
       THEN /\ resp' = UncaughtError
            /\ nextCalls' = nextCalls + 1
            /\ pc' = "done" /\ UNCHANGED cred
       ELSE /\ nextCalls' = nextCalls + 1
            /\ pc' = "post_user" /\ UNCHANGED <<resp, cred>>
    /\ UNCHANGED <<variant, req, fetches, keyResp, loc, verifyLog, boolRet>>
    /\ UNCHANGED <<codecVars, calls, strm, hp>>

\* The handler: GET /user with the token
PostUser ==
    /\ variant \in Single /\ pc = "post_user"
    /\ cred' = cred \cup {"userLookup"}
    /\ \E ok \in BOOLEAN :
          IF ok THEN pc' = "post_completion" /\ UNCHANGED resp
          ELSE pc' = "done" /\ resp' = Respond(500, "Error")
    /\ UNCHANGED <<variant, req, fetches, keyResp, loc, verifyLog, nextCalls, boolRet>>
    /\ UNCHANGED <<codecVars, calls, strm, hp>>

\* The handler: the chat completion is requested and its body passed on
PostCompletion ==
    /\ variant \in Single /\ pc = "post_completion"
    /\ cred' = cred \cup {"completion"}
    /\ \E ok \in BOOLEAN :
          resp' = IF ok THEN Respond(200, "stream") ELSE Respond(500, "Error")
    /\ pc' = "done"
    /\ UNCHANGED <<variant, req, fetches, keyResp, loc, verifyLog, nextCalls, boolRet>>
    /\ UNCHANGED <<codecVars, calls, strm, hp>>

(***************************************************************************)
(* The specifications of request handling.                                 *)
(***************************************************************************)
\* The steps the runtime takes by itself once they are enabled
ProgramStep ==
    \/ MwStart \/ MwOnResponse \/ MwOnImported \/ MwOnVerified
    \/ HpStart \/ HpUser \/ HpCompletion
    \/ PostStart \/ VsStart \/ VsOnResponse \/ VsOnImported \/ VsOnVerified
    \/ PostAfterVerify \/ PostUser \/ PostCompletion

Next ==
    \/ KeyEndpointAnswers
    \/ MwStart \/ MwOnResponse \/ MwOnImported \/ MwOnVerified
    \/ HpStart \/ HpUser \/ HpCompletion
    \/ PostStart \/ VsStart \/ VsOnResponse \/ VsOnImported \/ VsOnVerified
    \/ PostAfterVerify \/ PostUser \/ PostCompletion

Spec == Init /\ [][Next]_vars

FairSpec == Init /\ [][Next]_vars /\ WF_vars(ProgramStep)

(***************************************************************************)
(* Properties of request handling (checked under Spec and FairSpec).       *)
(***************************************************************************)
BothHeaders == ~FalsyHeader(req.sig) /\ ~Falsy(req.keyId)

\* The key the endpoint's answer yields for the request's key identifier
KeyIdx == FindKey(keyResp.keys, req.keyId)
KeyUsable ==
    /\ keyResp.kind = "keys" /\ KeyIdx # 0
    /\ pemToArrayBuffer(keyResp.keys[KeyIdx].key).ok
    /\ importKey(pemToArrayBuffer(keyResp.keys[KeyIdx].key).val).ok

\* The request's signature header decodes, by the variant's decoder
SigDecodes ==
    /\ atob(req.sig).ok
    /\ Decode(variant, atob(req.sig).val).ok

\* A failure of the verification after the key set was requested: the fetch
\* rejected, a non-ok response, a body that is no JSON, no key for the
\* identifier, key material that does not decode or import, a signature
\* that is no base64 or does not decode
FailureCase ==
    /\ keyResp.kind # "none"
    /\ ~KeyUsable \/ ~SigDecodes

\* The key was obtained and the signature examined, and the request was not
\* passed on: its signature is invalid
InvalidSignature == loc.cryptoKey # "none" /\ nextCalls = 0 /\ pc = "done"

\* C1: in the middleware of app.ts the downstream handler is invoked at most
\* once, and only after crypto.subtle.verify returned true for the request's
\* body, its decoded signature header and a listed key whose identifier is
\* the request's; with a missing header, a failed fetch, no matching key, a
\* thrown error or verify returning false it is never invoked.
C1_NextOnlyAfterVerified ==
    variant = "mw" =>
        /\ nextCalls <= 1
        /\ nextCalls = 1 =>
              \E i \in 1..Len(verifyLog) :
                 /\ verifyLog[i].result
                 /\ verifyLog[i].payload = req.body
                 /\ atob(req.sig).ok
                 /\ parseASN1Signature(atob(req.sig).val).ok
                 /\ verifyLog[i].raw = parseASN1Signature(atob(req.sig).val).val
                 /\ \E j \in 1..Len(keyResp.keys) :
                       /\ keyResp.keys[j].key_identifier = req.keyId
                       /\ keyResp.keys[j].key.b64ok
                       /\ verifyLog[i].key = keyResp.keys[j].key.spki
        /\ (\/ ~BothHeaders
            \/ FailureCase
            \/ (verifyLog # <<>> /\ ~verifyLog[Len(verifyLog)].result))
           => nextCalls = 0

\* C1 witness: the middleware passed a verified request on
C1_Witness ==
    /\ variant = "mw" /\ nextCalls = 1
    /\ verifyLog # <<>> /\ verifyLog[Len(verifyLog)].result

\* C2: the boolean verifySignature never ends in an error: once it has ended
\* it has returned true or false, and false whenever the fetch rejected, the
\* response was not ok or no JSON, no key matched, the key did not decode or
\* import, or the signature was no base64 or did not decode.
C2_BooleanNeverThrows ==
    variant \in Single =>
        /\ boolRet \in {"none", "true", "false"}
        /\ pc \in {"vs_returned", "post_user", "post_completion"} => boolRet # "none"
        /\ (boolRet # "none" /\ FailureCase) => boolRet = "false"

\* C2 witness: the fetch rejected and verifySignature returned false
C2_Witness ==
    /\ variant \in Single /\ keyResp.kind = "reject" /\ boolRet = "false"

\* C3 (as claimed): every request to the middleware that carries both
\* headers and fails verification gets one and the same response, the 401
\* also sent when the cryptographic check returns false.
C3_UniformUnauthorized ==
    (variant = "mw" /\ pc = "done" /\ BothHeaders /\ nextCalls = 0)
    => resp = Respond(401, "Invalid signature")

\* C4 (as claimed): a request without the signature or the key-identifier
\* header is answered 400 with no key request and no downstream handling,
\* and a request with both headers and an invalid signature is answered 401.
C4_MissingHeaders400Invalid401 ==
    /\ (~BothHeaders /\ pc # "start") =>
          /\ pc = "done" /\ resp.status = 400
          /\ fetches = 0 /\ nextCalls = 0
    /\ (BothHeaders /\ InvalidSignature) => resp.status = 401

\* C8 (as claimed): with an empty body, an empty signature or an empty key
\* identifier, the middleware and part_000's verifySignature reject without
\* requesting the key set.
C8_EmptyInputsRejectedFirst ==
    (/\ variant \in {"mw", "p0"}
     /\ req.body = "" \/ req.sig.kind = "empty" \/ req.keyId = "")
    => fetches = 0 /\ nextCalls = 0 /\ boolRet # "true"

\* C9 (as claimed): every verification eventually completes, whether or not
\* the key endpoint answers.
C9_EventuallyCompletes == <>(pc = "done")

\* C10 (as claimed): no credential-dependent behaviour (the token-required
\* response, the user lookup, the completion request) happens for a request
\* that was not verified, and a request with an invalid signature and no
\* token is answered as unauthorized.
C10_SignatureBeforeCredential ==
    /\ nextCalls = 0 => cred = {}
    /\ (BothHeaders /\ InvalidSignature /\ Falsy(req.token)) => resp.status = 401

(***************************************************************************)
(* What does hold of the statements refuted above.                         *)
(***************************************************************************)
\* Of C4: the 400 of the gate is sent exactly for a missing or empty header,
\* before any key request; a request with both headers that is not passed
\* on is answered 401 or 500.
C4_GateStatuses ==
    /\ (~BothHeaders /\ pc # "start") =>
          /\ pc = "done" /\ resp.status = 400
          /\ fetches = 0 /\ nextCalls = 0
    /\ (BothHeaders /\ pc = "done" /\ nextCalls = 0) => resp.status \in {401, 500}

\* Of C8: part_000's verifySignature requests no key set for an empty body,
\* signature or key identifier, and the middleware none for an empty header.
C8_EmptyInputsWhereTested ==
    /\ (variant = "p0" /\ (req.body = "" \/ req.sig.kind = "empty" \/ req.keyId = ""))
       => fetches = 0 /\ nextCalls = 0 /\ boolRet # "true"
    /\ (variant = "mw" /\ (req.sig.kind = "empty" \/ req.keyId = ""))
       => fetches = 0 /\ nextCalls = 0

\* Of C9: the awaited fetch is the only place where a request can wait: in
\* every other unfinished state a step of the program is enabled.
C9_OnlyTheFetchWaits ==
    pc \notin {"done", "awaitFetch"} => ENABLED ProgramStep

\* Of C10: nothing credential-dependent happens for a request that was not
\* passed on, and such a request is never answered 200.
C10_NoCredentialUseUnverified ==
    nextCalls = 0 => (cred = {} /\ resp.status # 200)

(***************************************************************************)
(* The key request (checked under Spec).                                   *)
(***************************************************************************)
\* The awaited fetch settled without a usable response: it rejected or the
\* response was not ok
FetchFailed == keyResp.kind \in {"reject", "notok"}

\* C11: a verification requests the key set at most once; after a fetch that
\* rejected or a response that was not ok the verification ends in rejection
\* (an error response of the middleware, false from the boolean
\* verifySignature, no downstream handling) and no second request is issued.
C11_AtMostOneFetch ==
    /\ fetches <= 1
    /\ (FetchFailed /\ pc # "gotResp") =>
          /\ fetches = 1
          /\ nextCalls = 0 /\ verifyLog = <<>> /\ loc = NoLocals
          /\ variant = "mw" => (pc = "done" /\ resp.status = 500)
          /\ variant \in Single =>
                /\ boolRet = "false"
                /\ pc \in {"vs_returned", "done"}
                /\ pc = "done" => resp = Respond(401, "Invalid signature")

\* C11 witness: the middleware got a non-ok response, answered with an error
\* and had requested the key set once
C11_Witness ==
    /\ variant = "mw" /\ keyResp.kind = "notok" /\ pc = "done"
    /\ fetches = 1 /\ resp.status = 500

(***************************************************************************)
(* SpecConc: several calls of the verifySignature middleware in flight.    *)
(* The middleware keeps everything in locals of the call (signature,       *)
(* keyId, body, response, keys, cryptoKey, rawSignature, isValid); module  *)
(* scope holds only the constant GITHUB_KEYS_URI.  A call is suspended at  *)
(* its awaits, where steps of other calls run.                             *)
(***************************************************************************)
\* Calls in flight at once
NumCalls == 2
CallIds == 1..NumCalls

\* The locals of a call that was just entered with request r
CallEntered(r) ==
    [pc |-> "start", req |-> r, fetches |-> 0, keyResp |-> NoKeyResp,
     loc |-> NoLocals, verifyLog |-> <<>>, nextCalls |-> 0, resp |-> NoResponse]

\* Lines 42-59: the headers are read and tested, the body is read, the key
\* set is requested
mwStart(l) ==
    IF FalsyHeader(l.req.sig) \/ Falsy(l.req.keyId)
    THEN [l EXCEPT !.resp = Respond(400, "Missing signature headers"), !.pc = "done"]
    ELSE [l EXCEPT !.fetches = l.fetches + 1, !.pc = "awaitFetch"]

\* The awaited fetch of the call settles with r
mwFetchSettled(l, r) == [l EXCEPT !.keyResp = r, !.pc = "gotResp"]

\* Lines 59-88 on the key set ks: the response is tested and read, the key
\* is looked up in ks and imported
mwOnResponse(l, ks) ==
    LET idx == FindKey(ks.keys, l.req.keyId)
        buf == pemToArrayBuffer(ks.keys[idx].key)
        key == importKey(buf.val)
    IN IF ks.kind = "reject"
       THEN [l EXCEPT !.resp = Respond(500, "Signature verification failed"), !.pc = "done"]
       ELSE IF ks.kind = "notok"
       THEN [l EXCEPT !.resp = Respond(500, "Failed to fetch public keys"), !.pc = "done"]
       ELSE IF ks.kind = "badjson"
       THEN [l EXCEPT !.resp = Respond(500, "Signature verification failed"), !.pc = "done"]
       ELSE IF idx = 0
       THEN [l EXCEPT !.resp = Respond(401, "No matching public key found"), !.pc = "done"]
       ELSE IF ~buf.ok \/ ~key.ok
       THEN [l EXCEPT !.resp = Respond(500, "Signature verification failed"), !.pc = "done"]
       ELSE [l EXCEPT !.loc.cryptoKey = key.val, !.pc = "imported"]

\* Lines 90-95: the signature is decoded and handed to crypto.subtle.verify
\* with the body
mwOnImported(l) ==
    CHOOSE out \in
      {IF ~signatureBuffer.ok THEN
          [l EXCEPT !.resp = Respond(500, "Signature verification failed"), !.pc = "done"]
       ELSE CHOOSE res \in
              {IF ~rawSignature.ok
               THEN [l EXCEPT !.resp = Respond(500, "Signature verification failed"),
                              !.pc = "done"]
               ELSE [l EXCEPT !.loc.rawSignature = rawSignature.val,
                              !.verifyLog = Append(l.verifyLog,
                                  VerifyCall(l.loc.cryptoKey, rawSignature.val, l.req.body)),
                              !.pc = "verified"] :
                 rawSignature \in {parseASN1Signature(signatureBuffer.val)}} : TRUE :
         signatureBuffer \in {atob(l.req.sig)}} : TRUE

\* Lines 97-102: isValid is tested: 401, or next()
mwOnVerified(l) ==
    IF ~l.verifyLog[Len(l.verifyLog)].result
    THEN [l EXCEPT !.resp = Respond(401, "Invalid signature"), !.pc = "done"]
    ELSE [l EXCEPT !.nextCalls = l.nextCalls + 1, !.pc = "done"]

\* The requests and key-endpoint answers of the concurrent calls
ConcRequests ==
    [sig : {[kind |-> "junk", bytes |-> <<>>],
            [kind |-> "b64", bytes |-> DerSig(GenuineRaw("A", "{m1}"), 0)],
            [kind |-> "b64", bytes |-> DerSig(GenuineRaw("B", "{m1}"), 0)]},
     keyId : {"k1", "k2"}, token : {"tok"}, body : {"{m1}"}]

ConcKeyResponses ==
    {[kind |-> "notok", keys |-> <<>>],
     [kind |-> "keys",
      keys |-> <<[key_identifier |-> "k1", key |-> PemA],
                 [key_identifier |-> "k2", key |-> PemB]>>],
     [kind |-> "keys",
      keys |-> <<[key_identifier |-> "k1", key |-> PemB],
                 [key_identifier |-> "k1", key |-> PemA]>>]}

InitConc ==
    /\ CodecIdle
    /\ ReqIdle
    /\ calls \in [CallIds -> {CallEntered(r) : r \in ConcRequests}]
    /\ strm = <<>> /\ hp = <<>>

CallStart(i) ==
    /\ calls[i].pc = "start"
    /\ calls' = [calls EXCEPT ![i] = mwStart(calls[i])]
    /\ UNCHANGED <<codecVars, reqVars, strm, hp>>

CallEndpointAnswers(i) ==
    /\ calls[i].pc = "awaitFetch"
    /\ \E r \in ConcKeyResponses :
          calls' = [calls EXCEPT ![i] = mwFetchSettled(calls[i], r)]
    /\ UNCHANGED <<codecVars, reqVars, strm, hp>>

\* A middleware that keeps the key set of the first answered call in module
\* scope and looks every call's key up there
CallOnResponseSharedKeys(i) ==
    /\ calls[i].pc = "gotResp"
    /\ LET first == CHOOSE j \in CallIds :
                       /\ calls[j].keyResp.kind # "none"
                       /\ \A k \in 1..(j - 1) : calls[k].keyResp.kind = "none"
       IN calls' = [calls EXCEPT ![i] = mwOnResponse(calls[i], calls[first].keyResp)]
    /\ UNCHANGED <<codecVars, reqVars, strm, hp>>

CallOnResponse(i) ==
    /\ calls[i].pc = "gotResp"
    /\ calls' = [calls EXCEPT ![i] = mwOnResponse(calls[i], calls[i].keyResp)]
    /\ UNCHANGED <<codecVars, reqVars, strm, hp>>

CallOnImported(i) ==
    /\ calls[i].pc = "imported"
    /\ calls' = [calls EXCEPT ![i] = mwOnImported(calls[i])]
    /\ UNCHANGED <<codecVars, reqVars, strm, hp>>

CallOnVerified(i) ==
    /\ calls[i].pc = "verified"
    /\ calls' = [calls EXCEPT ![i] = mwOnVerified(calls[i])]
    /\ UNCHANGED <<codecVars, reqVars, strm, hp>>

NextConc ==
    \E i \in CallIds :
       \/ CallStart(i) \/ CallEndpointAnswers(i) \/ CallOnResponse(i)
       \/ CallOnImported(i) \/ CallOnVerified(i)

SpecConc == InitConc /\ [][NextConc]_vars

(***************************************************************************)
(* Properties of concurrent calls (checked under SpecConc).                *)
(***************************************************************************)
\* The next step a call takes by itself
mwStep(l) ==
    IF l.pc = "start" THEN mwStart(l)
    ELSE IF l.pc = "gotResp" THEN mwOnResponse(l, l.keyResp)
    ELSE IF l.pc = "imported" THEN mwOnImported(l)
    ELSE IF l.pc = "verified" THEN mwOnVerified(l)
    ELSE l

\* The states a call passes through from l when it runs with no other call
\* around, up to its next wait for the endpoint or its end
RECURSIVE LoneRun(_)
LoneRun(l) ==
    IF l.pc \in {"done", "awaitFetch"} THEN {l}
    ELSE {l} \cup LoneRun(mwStep(l))

\* The states of a call that runs alone with request r and, once the key
\* endpoint has answered it, the answer kr
LoneStates(r, kr) ==
    IF kr.kind = "none" THEN LoneRun(CallEntered(r))
    ELSE LoneRun(mwFetchSettled(mwStart(CallEntered(r)), kr))

\* C12: under every interleaving of the calls at their awaits, the locals of
\* each call (key, decoded signature, verify result, response, forwarding)
\* are those of a call that runs alone with the same request and the same
\* answer to its own fetch: nothing of another call, its key set included,
\* enters the outcome.
C12_CallsIndependent ==
    \A i \in CallIds : calls[i] \in LoneStates(calls[i].req, calls[i].keyResp)

\* C12 witness: two calls with the same request are suspended after the
\* cryptographic check at the same time; their fetches were answered with
\* different key sets, and each verified with the key of its own set, with
\* different results
C12_Witness ==
    \E i \in CallIds : \E j \in CallIds :
       /\ i # j
       /\ calls[i].pc = "verified" /\ calls[j].pc = "verified"
       /\ calls[i].req = calls[j].req
       /\ calls[i].keyResp # calls[j].keyResp
       /\ calls[i].verifyLog[1].result /\ ~calls[j].verifyLog[1].result

(***************************************************************************)
(* The halves of the raw signature (checked under SpecCodec).              *)
(***************************************************************************)
\* The buffer starts with a structure whose first two elements are INTEGERs
\* lying inside the buffer (lengths in the short form)
HasTwoIntegers(b) ==
    /\ Len(b) >= 4
    /\ b[2] < 128
    /\ b[3] = 2
    /\ b[4] < 128 /\ 4 + b[4] + 2 <= Len(b)
    /\ b[4 + b[4] + 1] = 2
    /\ b[4 + b[4] + 2] < 128
    /\ 4 + b[4] + 2 + b[4 + b[4] + 2] <= Len(b)

\* The contents of these two INTEGERs: r and s as transmitted
RComp(b) == SubSeq(b, 5, 4 + b[4])
SComp(b) == SubSeq(b, 4 + b[4] + 3, 4 + b[4] + 2 + b[4 + b[4] + 2])

\* The 64 bytes have r normalised to 32 bytes in front and s normalised to
\* 32 bytes behind it
HalvesOf(raw, b) ==
    /\ padStart(RComp(b), totalLength).ok
    /\ padStart(SComp(b), totalLength).ok
    /\ SubSeq(raw, 1, totalLength) = padStart(RComp(b), totalLength).val
    /\ SubSeq(raw, totalLength + 1, 2 * totalLength) = padStart(SComp(b), totalLength).val

\* C13 (as claimed): whatever parseASN1Signature returns, in each of the
\* three decoders, has 64 bytes, the first 32 being the normalisation of r
\* alone and the last 32 that of s alone; a component that cannot be
\* normalised to 32 bytes makes the call fail.
C13_HalvesAreComponents ==
    (cstep \in ParseSteps /\ decOut.ok) =>
        /\ Len(decOut.val) = 2 * totalLength
        /\ HasTwoIntegers(sigBuf) => HalvesOf(decOut.val, sigBuf)

\* Of C13: it holds of the two decoders built on fromBER and padStart, and
\* the hand-rolled decoder always returns 64 bytes and never returns when r
\* cannot be normalised.
C13_LibraryDecoderHalves ==
    /\ (cstep \in {"parse", "parse_p0"} /\ decOut.ok) =>
          /\ Len(decOut.val) = 2 * totalLength
          /\ HasTwoIntegers(sigBuf) => HalvesOf(decOut.val, sigBuf)
    /\ (cstep = "parse_p1" /\ decOut.ok) =>
          /\ Len(decOut.val) = 2 * totalLength
          /\ HasTwoIntegers(sigBuf) => padStart(RComp(sigBuf), totalLength).ok

\* The hand-rolled decoder returned although s has no 32-byte normalisation,
\* and the r half is not the normalisation of r
C13_SOverwritesR ==
    /\ cstep = "parse_p1" /\ decOut.ok /\ HasTwoIntegers(sigBuf)
    /\ ~padStart(SComp(sigBuf), totalLength).ok
    /\ SubSeq(decOut.val, 1, totalLength) # padStart(RComp(sigBuf), totalLength).val

(***************************************************************************)
(* SpecStream: start(controller) of the ReadableStream that                *)
(* streamCompletion returns (routes/index.ts).  A chunk is modelled by     *)
(* whether choices[0].finish_reason is set.  The controller is that of the *)
(* Streams standard: once close() was called, close() and enqueue() throw  *)
(* a TypeError.                                                            *)
(***************************************************************************)
\* Most chunks the upstream completion delivers
MaxChunks == 4

RECURSIVE SeqsUpTo(_, _)
SeqsUpTo(S, n) ==
    IF n = 0 THEN {<<>>}
    ELSE SeqsUpTo(S, n - 1) \cup
         {Append(q, x) : q \in {t \in SeqsUpTo(S, n - 1) : Len(t) = n - 1}, x \in S}

\* The controller as start receives it
NewController == [closeRequested |-> FALSE, enqueued |-> 0, closeCalls |-> 0]

\* controller.enqueue(...)
ControllerEnqueue(ctl) ==
    IF ctl.closeRequested THEN [ok |-> FALSE, ctl |-> ctl]
    ELSE [ok |-> TRUE, ctl |-> [ctl EXCEPT !.enqueued = ctl.enqueued + 1]]

\* controller.close()
ControllerClose(ctl) ==
    [ok |-> ~ctl.closeRequested,
     ctl |-> [ctl EXCEPT !.closeRequested = TRUE, !.closeCalls = ctl.closeCalls + 1]]

InitStream ==
    /\ CodecIdle /\ ReqIdle /\ calls = <<>> /\ hp = <<>>
    /\ \E chunks \in SeqsUpTo(BOOLEAN, MaxChunks) : \E fails \in BOOLEAN :
          strm = [pc |-> "loop", upstream |-> chunks, upstreamFails |-> fails,
                  sawFinish |-> FALSE, ctl |-> NewController, threw |-> "none"]

\* One iteration of for await: the chunk is enqueued; with a finish_reason
\* the controller is closed and the loop left
StreamOnChunk ==
    /\ strm # <<>> /\ strm.pc = "loop" /\ strm.upstream # <<>>
    /\ LET fin == Head(strm.upstream)
           enq == ControllerEnqueue(strm.ctl)
           cls == ControllerClose(enq.ctl)
       IN strm' =
            IF ~enq.ok
            THEN [strm EXCEPT !.pc = "returned", !.threw = "enqueue"]
            ELSE IF fin
            THEN IF cls.ok
                 THEN [strm EXCEPT !.ctl = cls.ctl, !.sawFinish = TRUE,
                                   !.upstream = Tail(strm.upstream), !.pc = "afterLoop"]
                 ELSE [strm EXCEPT !.ctl = cls.ctl, !.pc = "returned", !.threw = "close"]
            ELSE [strm EXCEPT !.ctl = enq.ctl, !.upstream = Tail(strm.upstream)]
    /\ UNCHANGED <<codecVars, reqVars, calls, hp>>

\* The upstream sequence ends: the loop is left
StreamUpstreamEnds ==
    /\ strm # <<>> /\ strm.pc = "loop" /\ strm.upstream = <<>> /\ ~strm.upstreamFails
    /\ strm' = [strm EXCEPT !.pc = "afterLoop"]
    /\ UNCHANGED <<codecVars, reqVars, calls, hp>>

\* The upstream iterator throws: start ends with that error
StreamUpstreamFails ==
    /\ strm # <<>> /\ strm.pc = "loop" /\ strm.upstream = <<>> /\ strm.upstreamFails
    /\ strm' = [strm EXCEPT !.pc = "returned", !.threw = "upstream"]
    /\ UNCHANGED <<codecVars, reqVars, calls, hp>>

\* Line 121: controller.close() after the loop
StreamAfterLoop ==
    /\ strm # <<>> /\ strm.pc = "afterLoop"
    /\ LET cls == ControllerClose(strm.ctl)
       IN strm' = [strm EXCEPT !.ctl = cls.ctl, !.pc = "returned",
                               !.threw = IF cls.ok THEN "none" ELSE "close"]
    /\ UNCHANGED <<codecVars, reqVars, calls, hp>>

NextStream ==
    StreamOnChunk \/ StreamUpstreamEnds \/ StreamUpstreamFails \/ StreamAfterLoop

SpecStream == InitStream /\ [][NextStream]_vars

\* C14 (as claimed): whenever start has run through a chunk sequence, with a
\* finish_reason in it or ending without one, close() was called exactly
\* once; close() is never called on a controller already closed, and no
\* chunk is enqueued after close().
C14_ClosedExactlyOnce ==
    /\ strm.threw \notin {"close", "enqueue"}
    /\ strm.ctl.closeCalls <= 1
    /\ (strm.pc = "returned" /\ strm.threw # "upstream") => strm.ctl.closeCalls = 1

\* Of C14: no chunk is enqueued after close(); when the upstream ends without
\* a finish_reason close() is called exactly once; after a chunk with a
\* finish_reason close() is called twice and the second call throws.
C14_ClosedOnceWithoutFinish ==
    /\ strm.threw # "enqueue"
    /\ (strm.pc = "returned" /\ ~strm.sawFinish /\ strm.threw # "upstream") =>
          (strm.ctl.closeCalls = 1 /\ strm.threw = "none")
    /\ (strm.pc = "returned" /\ strm.sawFinish) =>
          (strm.ctl.closeCalls = 2 /\ strm.threw = "close")

(***************************************************************************)
(* SpecPost: handlePost (routes/index.ts) after the token test and the     *)
(* reading of the body.  A confirmation is [state, id]: id is              *)
(* confirmation.confirmation.id, the name of the tool.  A message list     *)
(* without messages or without copilot_confirmations in its last message   *)
(* behaves as one with an empty list.                                      *)
(***************************************************************************)
\* Most confirmations in the last message
MaxConfs == 2

Confirmations == [state : {"accepted", "dismissed"}, id : {"getWeather", "unknownTool"}]

\* callTool: getWeather is the one tool; any other name throws
callTool(toolCall) ==
    IF toolCall.type # "function" THEN Throw
    ELSE IF toolCall.name = "getWeather" THEN Ok("weather")
    ELSE Throw

\* What the tool-selection completion can come back with: an error, no tool
\* call, a tool call whose arguments are JSON, and one whose arguments are not
Selections == {"throws", "noToolCall", "toolCall", "toolCallBadArguments"}

\* sendConfirmationSSE: JSON.parse of the arguments, then the event stream
sendConfirmationSSE(toolCall) ==
    IF toolCall = "toolCallBadArguments" THEN Throw ELSE Ok("copilot_confirmation")

InitPost ==
    /\ CodecIdle /\ ReqIdle /\ calls = <<>> /\ strm = <<>>
    /\ \E cs \in SeqsUpTo(Confirmations, MaxConfs) : \E earlier \in BOOLEAN :
          hp = [pc |-> "user",
                confirmations |-> cs,        \* lastMessage.copilot_confirmations
                earlierAccepted |-> earlier, \* an accepted one in another message
                idx |-> 1,                   \* position of the for loop
                toolExecuted |-> FALSE,
                toolCalls |-> <<>>,          \* the calls of callTool
                pushed |-> 0,                \* tool results pushed to messages
                selections |-> 0,            \* tool-selection completions requested
                proposal |-> "none",         \* what the selection came back with
                resp |-> "none"]

\* await octokit.request('GET /user')
HandleUser ==
    /\ hp # <<>> /\ hp.pc = "user"
    /\ \E ok \in BOOLEAN :
          hp' = IF ok THEN [hp EXCEPT !.pc = "confirmations"]
                ELSE [hp EXCEPT !.pc = "done", !.resp = "error500"]
    /\ UNCHANGED <<codecVars, reqVars, calls, strm>>

\* One iteration of the loop over the last message's confirmations
HandleConfirmation ==
    /\ hp # <<>> /\ hp.pc = "confirmations" /\ hp.idx <= Len(hp.confirmations)
    /\ LET confirmation == hp.confirmations[hp.idx]
           toolCall == [id |-> confirmation.id, type |-> "function",
                        name |-> confirmation.id, origin |-> hp.idx]
           toolResultContent == callTool(toolCall)
       IN hp' =
            IF confirmation.state # "accepted"
            THEN [hp EXCEPT !.idx = hp.idx + 1]
            ELSE IF ~toolResultContent.ok
            THEN [hp EXCEPT !.toolCalls = Append(hp.toolCalls, toolCall),
                            !.pc = "done", !.resp = "error500"]
            ELSE [hp EXCEPT !.toolCalls = Append(hp.toolCalls, toolCall),
                            !.pushed = hp.pushed + 1,
                            !.toolExecuted = TRUE,
                            !.idx = hp.idx + 1]
    /\ UNCHANGED <<codecVars, reqVars, calls, strm>>

\* A handlePost that asks for a tool selection whether or not a tool ran
HandleAfterConfirmationsAlwaysSelecting ==
    /\ hp # <<>> /\ hp.pc = "confirmations" /\ hp.idx > Len(hp.confirmations)
    /\ hp' = [hp EXCEPT !.selections = hp.selections + 1, !.pc = "awaitSelection"]
    /\ UNCHANGED <<codecVars, reqVars, calls, strm>>

\* After the loop: unless a tool was executed, the tool selection is requested
HandleAfterConfirmations ==
    /\ hp # <<>> /\ hp.pc = "confirmations" /\ hp.idx > Len(hp.confirmations)
    /\ hp' = IF ~hp.toolExecuted
             THEN [hp EXCEPT !.selections = hp.selections + 1, !.pc = "awaitSelection"]
             ELSE [hp EXCEPT !.pc = "stream"]
    /\ UNCHANGED <<codecVars, reqVars, calls, strm>>

\* The tool selection comes back: a proposed tool call is answered with the
\* confirmation event
HandleSelection ==
    /\ hp # <<>> /\ hp.pc = "awaitSelection"
    /\ \E sel \in Selections :
          LET sse == sendConfirmationSSE(sel)
          IN hp' =
               IF sel = "throws"
               THEN [hp EXCEPT !.pc = "done", !.resp = "error500"]
               ELSE IF sel = "noToolCall"
               THEN [hp EXCEPT !.pc = "stream"]
               ELSE IF sse.ok
               THEN [hp EXCEPT !.proposal = sel, !.pc = "done", !.resp = sse.val]
               ELSE [hp EXCEPT !.proposal = sel, !.pc = "done", !.resp = "error500"]
    /\ UNCHANGED <<codecVars, reqVars, calls, strm>>

\* return await streamCompletion(...)
HandleStream ==
    /\ hp # <<>> /\ hp.pc = "stream"
    /\ \E ok \in BOOLEAN :
          hp' = [hp EXCEPT !.pc = "done",
                           !.resp = IF ok THEN "stream" ELSE "error500"]
    /\ UNCHANGED <<codecVars, reqVars, calls, strm>>

NextPost ==
    \/ HandleUser \/ HandleConfirmation \/ HandleAfterConfirmations
    \/ HandleSelection \/ HandleStream

SpecPost == InitPost /\ [][NextPost]_vars

(***************************************************************************)
(* Properties of handlePost (checked under SpecPost).                      *)
(***************************************************************************)
\* Every call of callTool was made for a confirmation of the last message
\* whose state is 'accepted', with that confirmation's tool name
CalledForAccepted ==
    \A k \in 1..Len(hp.toolCalls) :
       LET tc == hp.toolCalls[k]
       IN /\ tc.origin \in 1..Len(hp.confirmations)
          /\ hp.confirmations[tc.origin].state = "accepted"
          /\ tc.name = hp.confirmations[tc.origin].id

\* Where a tool was called, no tool selection is requested and no
\* confirmation event returned: the request ends in the streamed completion
\* or a 500
NoSelectionAfterTool ==
    hp.toolCalls # <<>> =>
        /\ hp.selections = 0 /\ hp.proposal = "none"
        /\ hp.pc = "done" => hp.resp \in {"stream", "error500"}

====
